---- MODULE Spec2Model ----
(***************************************************************************)
(* Verification model of rahuldara17/xiphi.                                *)
(*                                                                         *)
(* Part I  - the entity canonicalizer (app/services/process.py) running    *)
(*           against the catalog tables of postgres/models.py, with one    *)
(*           database transaction per HTTP request (READ COMMITTED).       *)
(* Part II - the recommendation aggregator                                 *)
(*           (app/api/v1/endpoints/people.py, get_recommendations_attendee)*)
(*                                                                         *)
(* Spec     is the specification of Part I, SpecDown the same with a store *)
(* or embedding provider that can fail; SpecAgg is that of Part II,        *)
(* SpecRepeat the same with a request that is sent twice.                  *)
(* Scores are integers in tenths, composite scores in thousandths.         *)
(***************************************************************************)
EXTENDS Integers, Sequences, FiniteSets, TLC

VARIABLES
    rows,      \* catalog rows of the four tables, committed and pending
    nextId,    \* source of fresh uuid4 values
    calls,     \* log of find_or_create_* calls, in the order they began
    cur,       \* cur[p]: index in calls of the call request p runs or ran last
    req,       \* req[p]: the request (transaction) p has open, or "none"
    agg,       \* state of one get_recommendations_attendee request
    sim,       \* background_similarity_task and the in-memory trigger state
    reg,       \* one row of user_registrations and the claim requests on it
    prof       \* profile updates and what they wrote to links and graph

vars == <<rows, nextId, calls, cur, req, agg, sim, reg, prof>>

(***************************************************************************)
(* Bounds                                                                  *)
(***************************************************************************)
NProcs == 2      \* concurrent request handlers
MaxCalls == 2    \* find_or_create_* calls per behaviour
MaxSeed == 2     \* catalog rows present before the first request
MaxSeedDown == 1 \* the same, in the specification with an unreachable store

MaxCand == 3     \* users the graph can recommend
MaxLen == 2      \* rows one category query returns
MaxLimit == 2    \* largest limit query parameter

MaxHours == 26   \* hours the background task is followed
MaxUpdates == 10 \* largest value of the profile update counter

NUsers == 2      \* users that try to claim the registration
MaxClaims == 2   \* claim requests one user sends
MaxProfileUpdates == 3 \* attributes updated by update_user_data calls

Procs == 1..NProcs
Users == 1..NUsers
Texts == {"a", "b"}
Kinds == {"skill", "interest", "company", "job_role", "location"}

Min(a, b) == IF a < b THEN a ELSE b
Abs(x) == IF x < 0 THEN -x ELSE x

(***************************************************************************)
(* Part I: catalog store                                                   *)
(***************************************************************************)

\* The table each function of process.py queries and inserts into.
TableOf(kind) ==
    CASE kind \in {"skill", "interest"} -> "skills_interests"
      [] kind = "company" -> "companies"
      [] kind = "job_role" -> "job_roles"
      [] kind = "location" -> "locations"

\* Columns declared nullable=False without a default or server_default.
NotNullColumns(tbl) ==
    CASE tbl = "skills_interests" -> {"name", "category"}
      [] tbl = "companies" -> {"name", "type"}
      [] tbl = "job_roles" -> {"name"}
      [] tbl = "locations" -> {"name"}

\* name is declared unique=True in companies, job_roles and locations only.
UniqueName(tbl) == tbl \in {"companies", "job_roles", "locations"}

\* A NULL embedding column; a stored vector is a one-dimensional <<x>>.
NoEmbedding == <<>>

\* skills_interests.category tells skills from interests; the other tables
\* have no such column, and no INSERT of process.py sets it.
NoCategory == "none"

\* The embedding provider: a deterministic function of the text.
generate_embedding(text) == IF text = "a" THEN <<1>> ELSE <<2>>

l2_distance(u, v) == Abs(u[1] - v[1])

\* LIMIT of the vector queries.
TopN == 5

\* Rows a statement of request p sees under READ COMMITTED: committed rows
\* (owner 0) and the rows p itself has flushed.
Visible(p, tbl) == {r \in rows : r.tbl = tbl /\ r.owner \in {0, p}}

\* ORDER BY embedding <-> e ASC: NULL distances sort last; rows at the same
\* distance come in physical (insertion) order.
Before(r1, r2, e) ==
    IF (r1.emb = NoEmbedding) # (r2.emb = NoEmbedding)
    THEN r2.emb = NoEmbedding
    ELSE IF r1.emb = NoEmbedding
         THEN r1.id < r2.id
         ELSE \/ l2_distance(r1.emb, e) < l2_distance(r2.emb, e)
              \/ /\ l2_distance(r1.emb, e) = l2_distance(r2.emb, e)
                 /\ r1.id < r2.id

RECURSIVE OrderByDistance(_, _)
OrderByDistance(S, e) ==
    IF S = {} THEN <<>>
    ELSE LET first == CHOOSE r \in S : \A o \in S \ {r} : Before(r, o, e)
         IN <<first.id>> \o OrderByDistance(S \ {first}, e)

Limit(seq, n) == SubSeq(seq, 1, Min(n, Len(seq)))

\* select(...).order_by(embedding.l2_distance(e)).limit(5): the ids, in order.
VectorQuery(S, e) == Limit(OrderByDistance(S, e), TopN)

\* select(T).filter(T.name == text) ... .first(): a row id, or 0.
ExactQuery(S, text) ==
    LET hits == {r \in S : r.name = text}
    IN IF hits = {} THEN 0
       ELSE (CHOOSE r \in hits : \A o \in hits : r.id <= o.id).id

RowById(id) == CHOOSE r \in rows : r.id = id

\* What the statement at pc of the function for kind calls: the embedding
\* provider, the vector query, the query by name.
Invokes(kind, pc) ==
    CASE kind \in {"skill", "interest"} /\ pc = "q1" -> {"embedding", "vector_search"}
      [] kind \in {"skill", "interest"} /\ pc = "q2" -> {"exact_query"}
      [] kind \in {"company", "job_role"} /\ pc = "q1" -> {"exact_query"}
      [] kind = "location" /\ pc = "q1" -> {"embedding", "exact_query"}
      [] kind = "location" /\ pc = "q2" -> {"vector_search"}
      [] OTHER -> {}

\* The call record once the statement it is at has run.
Ran(c) == [calls[c] EXCEPT !.invoked = @ \cup Invokes(calls[c].kind, calls[c].pc)]

(***************************************************************************)
(* Part I: call bookkeeping                                                *)
(***************************************************************************)
InCall(p) == cur[p] # 0 /\ calls[cur[p]].pc \in {"q1", "q2", "insert"}
Finished(c) == calls[c].pc \in {"ok", "error"}

SetCall(c, rec) == [calls EXCEPT ![c] = rec]

\* The call returns the entity id.
Return(c, id) ==
    /\ calls' = SetCall(c, [Ran(c) EXCEPT !.pc = "ok", !.id = id])
    /\ UNCHANGED <<rows, nextId, cur, req>>

\* The call raises err: nothing in process.py or its callers catches it, the
\* request ends and its session closes without commit, which rolls back
\* everything the request had flushed.
Raise(c, err) ==
    LET p == calls[c].proc
    IN /\ calls' = SetCall(c, [Ran(c) EXCEPT !.pc = "error", !.err = err,
                                           !.failedAt = calls[c].pc])
       /\ rows' = {r \in rows : r.owner # p}
       /\ req' = [req EXCEPT ![p] = "none"]
       /\ UNCHANGED <<nextId, cur>>

\* The call goes on to its next statement.
Goto(c, pc, top) ==
    /\ calls' = SetCall(c, [Ran(c) EXCEPT !.pc = pc, !.top = top,
                                        !.miss = (pc = "insert")])
    /\ UNCHANGED <<rows, nextId, cur, req>>


\* db.add(row); await db.flush(): the INSERT of a row with the columns in
\* cols.  A NOT NULL column left out raises IntegrityError; so does a name
\* already committed (or already flushed by this request) in a table whose
\* name is unique.  While another open transaction holds the same unique
\* name the INSERT waits for that transaction to end.
Flush(c, cols, emb) ==
    LET p == calls[c].proc
        tbl == TableOf(calls[c].kind)
        text == calls[c].text
        same == {r \in rows : r.tbl = tbl /\ r.name = text}
    IN IF ~(NotNullColumns(tbl) \subseteq cols)
       THEN Raise(c, "notnull")
       ELSE IF UniqueName(tbl) /\ (\E r \in same : r.owner \in {0, p})
       THEN Raise(c, "unique")
       ELSE /\ UniqueName(tbl) => same = {}
            /\ rows' = rows \cup {[id |-> nextId, tbl |-> tbl, name |-> text,
                                   emb |-> emb, category |-> NoCategory,
                                   owner |-> p, by |-> c]}
            /\ nextId' = nextId + 1
            /\ calls' = SetCall(c, [calls[c] EXCEPT !.pc = "ok", !.id = nextId])
            /\ UNCHANGED <<cur, req>>

(***************************************************************************)
(* Part I: requests                                                        *)
(***************************************************************************)

\* A request handler calls one of the find_or_create_* functions:
\* update_user_data resolves skills, interests, job roles and a company in
\* one transaction; create_conference_api resolves one location.
Begin(p, kind, text) ==
    LET c == Len(calls) + 1
        alone == \A q \in Procs \ {p} : req[q] = "none"
        exact == ExactQuery(Visible(p, TableOf(kind)), text)
        nearest == OrderByDistance(Visible(p, TableOf(kind)),
                                   generate_embedding(text))
        prev == IF c > 1 /\ alone /\ calls[c - 1].alone /\ Finished(c - 1)
                THEN c - 1 ELSE 0
        shared == {cur[q] : q \in {q \in Procs \ {p} : req[q] # "none"}}
        old == [i \in 1..Len(calls) |->
                  IF i \in shared THEN [calls[i] EXCEPT !.alone = FALSE]
                  ELSE calls[i]]
    IN /\ ~InCall(p)
       /\ \A q \in Procs : q < p => cur[q] # 0   \* handlers are numbered in
       /\ Len(calls) < MaxCalls                  \* the order of their first call
       /\ IF kind = "location" THEN req[p] = "none"
          ELSE req[p] \in {"none", "update"}
       /\ calls' = Append(old, [proc |-> p, kind |-> kind, text |-> text,
                                pc |-> "q1", err |-> "none",
                                failedAt |-> "none", id |-> 0, top |-> <<>>,
                                miss |-> FALSE, invoked |-> {},
                                exact0 |-> exact,
                                near0 |-> IF nearest = <<>> THEN 0
                                          ELSE nearest[1],
                                prev |-> prev, alone |-> alone])
       /\ cur' = [cur EXCEPT ![p] = c]
       /\ req' = [req EXCEPT ![p] = IF kind = "location" THEN "conference"
                                    ELSE "update"]
       /\ UNCHANGED <<rows, nextId, agg, sim, reg, prof>>

\* await db.commit() of the request handler.
Commit(p) ==
    /\ ~InCall(p)
    /\ req[p] # "none"
    /\ rows' = {IF r.owner = p THEN [r EXCEPT !.owner = 0] ELSE r : r \in rows}
    /\ req' = [req EXCEPT ![p] = "none"]
    /\ UNCHANGED <<nextId, calls, cur, agg, sim, reg, prof>>

\* Mutant: a failed embedding or lookup is swallowed and taken for "no
\* match".
Unavailable_taken_as_no_match(p) ==
    /\ InCall(p)
    /\ LET c == cur[p]
       IN IF calls[c].pc = "insert" THEN Raise(c, "unavailable")
          ELSE /\ calls' = SetCall(c, [calls[c] EXCEPT
                                         !.pc = "insert", !.miss = TRUE,
                                         !.err = "unavailable",
                                         !.failedAt = calls[c].pc])
               /\ UNCHANGED <<rows, nextId, cur, req>>
    /\ UNCHANGED <<agg, sim, reg, prof>>

\* The embedding provider or the store is unreachable: the statement the
\* call is at raises.
Unavailable(p) ==
    /\ InCall(p)
    /\ Raise(cur[p], "unavailable")
    /\ UNCHANGED <<agg, sim, reg, prof>>

(***************************************************************************)
(* Part I: the find_or_create_* functions, one action per awaited statement*)
(***************************************************************************)
At(p, pcs, kinds) ==
    /\ InCall(p)
    /\ calls[cur[p]].pc = pcs
    /\ calls[cur[p]].kind \in kinds

find_or_create_skill_interest_vector(p) ==
    /\ At(p, "q1", {"skill", "interest"})
    /\ LET c == cur[p]
           embedding == generate_embedding(calls[c].text)
           top == VectorQuery(Visible(p, "skills_interests"), embedding)
       IN IF top # <<>> THEN Goto(c, "q2", top) ELSE Goto(c, "insert", top)
    /\ UNCHANGED <<agg, sim, reg, prof>>

find_or_create_skill_interest_exact(p) ==
    /\ At(p, "q2", {"skill", "interest"})
    /\ LET c == cur[p]
           exact == ExactQuery(Visible(p, "skills_interests"), calls[c].text)
           found_match == IF exact # 0 THEN exact ELSE calls[c].top[1]
       IN IF RowById(found_match).emb = NoEmbedding
          THEN Raise(c, "typeerror")     \* list(None)
          ELSE Return(c, found_match)
    /\ UNCHANGED <<agg, sim, reg, prof>>

find_or_create_skill_interest_create(p) ==
    /\ At(p, "insert", {"skill", "interest"})
    /\ Flush(cur[p], {"skill_interest_id", "name", "embedding"},
             generate_embedding(calls[cur[p]].text))
    /\ UNCHANGED <<agg, sim, reg, prof>>

\* Mutant: the lookup selects from the locations table.
find_or_create_company_lookup_in_locations(p) ==
    /\ At(p, "q1", {"company"})
    /\ LET c == cur[p]
           existing == ExactQuery(Visible(p, "locations"), calls[c].text)
       IN IF existing # 0 THEN Return(c, existing)
          ELSE Goto(c, "insert", <<>>)
    /\ UNCHANGED <<agg, sim, reg, prof>>

find_or_create_company_lookup(p) ==
    /\ At(p, "q1", {"company"})
    /\ LET c == cur[p]
           existing == ExactQuery(Visible(p, "companies"), calls[c].text)
       IN IF existing # 0 THEN Return(c, existing)
          ELSE Goto(c, "insert", <<>>)
    /\ UNCHANGED <<agg, sim, reg, prof>>

find_or_create_company_create(p) ==
    /\ At(p, "insert", {"company"})
    /\ Flush(cur[p], {"company_id", "name"}, NoEmbedding)
    /\ UNCHANGED <<agg, sim, reg, prof>>

\* Mutant: the lookup compares the title with a column that never equals it
\* and so never finds the existing job role.
find_or_create_job_role_lookup_never_finds(p) ==
    /\ At(p, "q1", {"job_role"})
    /\ Goto(cur[p], "insert", <<>>)
    /\ UNCHANGED <<agg, sim, reg, prof>>

find_or_create_job_role_lookup(p) ==
    /\ At(p, "q1", {"job_role"})
    /\ LET c == cur[p]
           existing == ExactQuery(Visible(p, "job_roles"), calls[c].text)
       IN IF existing # 0 THEN Return(c, existing)
          ELSE Goto(c, "insert", <<>>)
    /\ UNCHANGED <<agg, sim, reg, prof>>

find_or_create_job_role_create(p) ==
    /\ At(p, "insert", {"job_role"})
    /\ Flush(cur[p], {"job_role_id", "name"}, NoEmbedding)
    /\ UNCHANGED <<agg, sim, reg, prof>>

find_or_create_location_exact(p) ==
    /\ At(p, "q1", {"location"})
    /\ LET c == cur[p]
           found == ExactQuery(Visible(p, "locations"), calls[c].text)
       IN IF found # 0 THEN Return(c, found)
          ELSE Goto(c, "q2", <<>>)
    /\ UNCHANGED <<agg, sim, reg, prof>>

\* Mutant: the matched location is renamed to the raw text.
find_or_create_location_vector_renames_match(p) ==
    /\ At(p, "q2", {"location"})
    /\ LET c == cur[p]
           input_embedding == generate_embedding(calls[c].text)
           withEmb == {r \in Visible(p, "locations") : r.emb # NoEmbedding}
           top == VectorQuery(withEmb, input_embedding)
       IN IF top # <<>>
          THEN /\ calls' = SetCall(c, [Ran(c) EXCEPT !.pc = "ok", !.id = top[1]])
               /\ rows' = {IF r.id = top[1]
                           THEN [r EXCEPT !.name = calls[c].text] ELSE r
                           : r \in rows}
               /\ UNCHANGED <<nextId, cur, req>>
          ELSE Goto(c, "insert", top)
    /\ UNCHANGED <<agg, sim, reg, prof>>

find_or_create_location_vector(p) ==
    /\ At(p, "q2", {"location"})
    /\ LET c == cur[p]
           input_embedding == generate_embedding(calls[c].text)
           withEmb == {r \in Visible(p, "locations") : r.emb # NoEmbedding}
           top == VectorQuery(withEmb, input_embedding)
       IN IF top # <<>> THEN Return(c, top[1])
          ELSE Goto(c, "insert", top)
    /\ UNCHANGED <<agg, sim, reg, prof>>

find_or_create_location_create(p) ==
    /\ At(p, "insert", {"location"})
    /\ Flush(cur[p], {"location_id", "name", "embedding"},
             generate_embedding(calls[cur[p]].text))
    /\ UNCHANGED <<agg, sim, reg, prof>>

(***************************************************************************)
(* Part I: initial catalogs and specification                              *)
(***************************************************************************)

\* Rows loaded before the first request (postgres/populate_embeddings.py or
\* any other loader): every declared column constraint holds, names are not
\* repeated within a table, the embedding column may be NULL.  The
\* embeddings of companies and job roles are never read by process.py.
SeedChoices ==
    [tbl : {"skills_interests"}, name : Texts,
     emb : {NoEmbedding, <<1>>, <<2>>}, category : {"skill", "interest"}]
    \cup [tbl : {"locations"}, name : Texts,
          emb : {NoEmbedding, <<1>>, <<2>>}, category : {NoCategory}]
    \cup [tbl : {"companies", "job_roles"}, name : Texts,
          emb : {NoEmbedding}, category : {NoCategory}]

SeedLists(n) ==
    {s \in UNION {[1..k -> SeedChoices] : k \in 0..n} :
        \A i, j \in 1..Len(s) :
            (i # j) => (s[i].tbl # s[j].tbl \/ s[i].name # s[j].name)}

AggIdle == [pc |-> "idle"]

\* The trigger state when the application has started: the counter is 0 and
\* the last computation is dated now; the task sleeps its first hour.
SimIdle ==
    [clock |-> 0, count |-> 0, last |-> 0, pc |-> "sleep", wake |-> 1,
     pending |-> 0, lastStart |-> -1, gap |-> -1, result |-> "none"]

\* A registration uploaded by the organizer that nobody has claimed
\* (user_id NULL is 0), and no claim request sent.
RegIdle ==
    [user_id |-> 0, status |-> "pre_registered",
     pc |-> [u \in Users |-> "idle"],
     seen |-> [u \in Users |-> [user_id |-> 0, status |-> "none"]],
     sent |-> [u \in Users |-> 0],
     response |-> [u \in Users |-> 0],
     granted |-> {}, owners |-> <<>>]

\* No attribute being updated.
NoAttr == [kind |-> "none", raw |-> "", info |-> <<>>, link |-> 0, graph |-> ""]

\* No profile update in progress, no LIVES_IN relationship of the user.
ProfIdle ==
    [pc |-> [p \in Procs |-> "idle"], att |-> [p \in Procs |-> NoAttr],
     lives |-> {}, begun |-> 0]

InitCatalog(n) ==
    /\ \E s \in SeedLists(n) :
         /\ rows = {[id |-> i, tbl |-> s[i].tbl, name |-> s[i].name,
                     emb |-> s[i].emb, category |-> s[i].category,
                     owner |-> 0, by |-> 0] : i \in 1..Len(s)}
         /\ nextId = Len(s) + 1
    /\ calls = <<>>
    /\ cur = [p \in Procs |-> 0]
    /\ req = [p \in Procs |-> "none"]
    /\ agg = AggIdle
    /\ sim = SimIdle
    /\ reg = RegIdle
    /\ prof = ProfIdle

Init == InitCatalog(MaxSeed)

Next ==
    \E p \in Procs :
        \/ \E kind \in Kinds, text \in Texts : Begin(p, kind, text)
        \/ find_or_create_skill_interest_vector(p)
        \/ find_or_create_skill_interest_exact(p)
        \/ find_or_create_skill_interest_create(p)
        \/ find_or_create_company_lookup(p)
        \/ find_or_create_company_create(p)
        \/ find_or_create_job_role_lookup(p)
        \/ find_or_create_job_role_create(p)
        \/ find_or_create_location_exact(p)
        \/ find_or_create_location_vector(p)
        \/ find_or_create_location_create(p)
        \/ Commit(p)

\* The store and the embedding provider are reachable throughout.
Spec == Init /\ [][Next]_vars

\* The store or the embedding provider may fail at any statement.
InitDown == InitCatalog(MaxSeedDown)

NextDown == Next \/ \E p \in Procs : Unavailable(p)

SpecDown == InitDown /\ [][NextDown]_vars

(***************************************************************************)
(* Part I: claims                                                          *)
(***************************************************************************)
Created(c) == calls[c].pc = "ok" /\ calls[c].miss
SameInput(c1, c2) ==
    calls[c1].kind = calls[c2].kind /\ calls[c1].text = calls[c2].text
EmptyAtStart(tbl) == \A r \in rows : r.tbl = tbl => r.by # 0

\* C1 - no duplicate creation: any two calls resolving the same text of the
\* same kind, unseen in a catalog that started empty, both return, return the
\* same entity id, exactly one of them created the entity, and the catalog
\* never holds two rows of one table with the same name.  Stated for job
\* roles and locations, the two kinds whose INSERT carries every NOT NULL
\* column.
C1_NoDuplicateCreation ==
    /\ \A c1, c2 \in DOMAIN calls :
         ( /\ c1 < c2
           /\ SameInput(c1, c2)
           /\ calls[c1].kind \in {"job_role", "location"}
           /\ EmptyAtStart(TableOf(calls[c1].kind))
           /\ Finished(c1) /\ Finished(c2) )
         => /\ calls[c1].pc = "ok" /\ calls[c2].pc = "ok"
            /\ calls[c1].id = calls[c2].id
            /\ Created(c1) # Created(c2)
    /\ \A r1, r2 \in rows :
         (r1.tbl = r2.tbl /\ r1.name = r2.name /\ UniqueName(r1.tbl))
         => r1.id = r2.id

\* C2 - idempotence: when a call follows a call with the same text and kind
\* that returned an id, no other call began in between and no other request
\* had a transaction open while either ran, the second call returns the same
\* id.
C2_Idempotent ==
    \A c \in DOMAIN calls :
        ( /\ calls[c].prev # 0
          /\ calls[c].alone
          /\ Finished(c)
          /\ SameInput(c, calls[c].prev)
          /\ calls[calls[c].prev].pc = "ok" )
        => /\ calls[c].pc = "ok"
           /\ calls[c].id = calls[calls[c].prev].id

\* Two calls in sequence with the same input, the first of which created the
\* entity, have both returned.
C2_Witness ==
    \E c \in DOMAIN calls :
        /\ calls[c].prev # 0 /\ calls[c].alone
        /\ SameInput(c, calls[c].prev)
        /\ Created(calls[c].prev)
        /\ calls[c].proc # calls[calls[c].prev].proc
        /\ calls[c].pc = "ok"

\* C3 - lexical preference: a call that began while its catalog held a row
\* named exactly like the input returns that row.
C3_LexicalPreference ==
    \A c \in DOMAIN calls :
        (Finished(c) /\ calls[c].exact0 # 0)
        => (calls[c].pc = "ok" /\ calls[c].id = calls[c].exact0)

\* C4 - kind isolation: a location resolve and a company resolve never
\* return the same id; a location resolve returns a row of locations, a
\* company resolve a row of companies.
C4_KindIsolation ==
    /\ \A c1, c2 \in DOMAIN calls :
         ( /\ calls[c1].kind = "location" /\ calls[c1].pc = "ok"
           /\ calls[c2].kind = "company" /\ calls[c2].pc = "ok" )
         => calls[c1].id # calls[c2].id
    /\ \A c \in DOMAIN calls :
         (calls[c].kind \in {"location", "company"} /\ calls[c].pc = "ok")
         => \E r \in rows : r.id = calls[c].id /\ r.tbl = TableOf(calls[c].kind)

\* The same text was resolved as a location and as a company, and both calls
\* returned.
C4_Witness ==
    \E c1, c2 \in DOMAIN calls :
        /\ calls[c1].kind = "location" /\ calls[c1].pc = "ok"
        /\ calls[c2].kind = "company" /\ calls[c2].pc = "ok"
        /\ calls[c1].text = calls[c2].text

\* C5 - no match is not an error: with the store reachable, a call that
\* found no match (and lost no race for the name) creates the entity and
\* returns it.
C5_NoMatchCreates ==
    \A c \in DOMAIN calls :
        (Finished(c) /\ calls[c].miss /\ calls[c].err # "unique")
        => calls[c].pc = "ok"

\* C6 - a uniqueness violation of the INSERT is never surfaced to the
\* caller.
C6_ViolationNotSurfaced ==
    \A c \in DOMAIN calls : calls[c].err # "unique"

\* C7 - a call whose embedding computation or lookup failed ends in an
\* error and has created no row.
C7_FailedLookupCreatesNothing ==
    \A c \in DOMAIN calls :
        (calls[c].err = "unavailable" /\ calls[c].failedAt \in {"q1", "q2"})
        => /\ calls[c].pc = "error"
           /\ \A r \in rows : r.by # c

\* A lookup failed while the catalog held no row named like the input.
C7_Witness ==
    \E c \in DOMAIN calls :
        /\ calls[c].err = "unavailable"
        /\ calls[c].failedAt \in {"q1", "q2"}
        /\ calls[c].pc = "error"
        /\ \A r \in rows : r.tbl = TableOf(calls[c].kind) => r.name # calls[c].text

\* C16 - skills and interests are kept apart: a resolve with kind skill
\* never returns an entity the catalog holds as an interest, and a resolve
\* with kind interest never one it holds as a skill.
C16_SkillInterestPartition ==
    \A c \in DOMAIN calls :
        (calls[c].pc = "ok" /\ calls[c].kind \in {"skill", "interest"})
        => \A r \in rows : r.id = calls[c].id => r.category = calls[c].kind

\* C17 - grow-only, immutable catalog: no step removes a committed row or
\* changes its id, name or embedding, no two rows share an id, and a call
\* that returns a match leaves all rows as they were.
C17_GrowOnlyImmutable ==
    [][ /\ \A r \in rows :
             r.owner = 0 =>
               \E n \in rows' : /\ n.id = r.id /\ n.tbl = r.tbl
                                /\ n.name = r.name /\ n.emb = r.emb
                                /\ n.owner = 0
        /\ \A r1, r2 \in rows' : r1.id = r2.id => r1 = r2
        /\ \A c \in DOMAIN calls :
             (~Finished(c) /\ calls'[c].pc = "ok" /\ ~calls'[c].miss)
             => rows' = rows ]_vars

\* A call has returned, as the nearest match, a committed row whose name is
\* not the text of the call.
C17_Witness ==
    \E c \in DOMAIN calls :
        /\ calls[c].pc = "ok" /\ ~calls[c].miss
        /\ \E r \in rows : /\ r.id = calls[c].id /\ r.owner = 0
                           /\ r.name # calls[c].text

\* C18 - vector fallback: a call that began, with no other request open,
\* on a non-empty catalog of its kind holding no row named like the input
\* returns the row nearest to the input embedding and creates nothing.
C18_VectorFallback ==
    \A c \in DOMAIN calls :
        ( /\ Finished(c) /\ calls[c].alone
          /\ calls[c].exact0 = 0 /\ calls[c].near0 # 0 )
        => /\ calls[c].pc = "ok"
           /\ ~calls[c].miss
           /\ calls[c].id = calls[c].near0

\* C19 - creation on an empty result: a call that found no candidate (and
\* lost no race for the name) returns the id of exactly one new row, whose
\* id no other row has, whose name is the input text and whose embedding is
\* the embedding of the input text.
C19_CreationOnEmpty ==
    \A c \in DOMAIN calls :
        ( /\ Finished(c) /\ calls[c].miss /\ calls[c].err # "unique"
          /\ cur[calls[c].proc] = c )
        => /\ calls[c].pc = "ok"
           /\ \E r \in rows :
                /\ r.by = c /\ r.id = calls[c].id
                /\ r.tbl = TableOf(calls[c].kind)
                /\ r.name = calls[c].text
                /\ r.emb = generate_embedding(calls[c].text)
                /\ \A o \in rows \ {r} : o.id # r.id /\ o.by # c

\* C20 - in the location path the check by name comes first: a call whose
\* text names an existing location returns that location without the
\* embedding provider or the vector search having been invoked.
C20_ExactBeforeEmbedding ==
    \A c \in DOMAIN calls :
        ( /\ calls[c].kind = "location" /\ Finished(c)
          /\ calls[c].alone /\ calls[c].exact0 # 0 )
        => /\ calls[c].pc = "ok"
           /\ calls[c].id = calls[c].exact0
           /\ calls[c].invoked \cap {"embedding", "vector_search"} = {}


(***************************************************************************)
(* Part II: get_recommendations_attendee                                   *)
(***************************************************************************)
Categories == <<"Demographics", "Interests", "Skills">>

\* The requesting user; the graph queries never return it.
UserId == 0
Cands == 1..MaxCand

\* SimilarityScore values, in tenths; the queries keep only scores > 0.
ScoreVals(category) ==
    CASE category = "Demographics" -> {5, 10}
      [] category = "Interests" -> {2, 5}
      [] category = "Skills" -> {5, 10}

\* Weights of the final score, in hundredths.
WeightDemographics == 20
WeightInterests == 60
WeightSkills == 10

\* fetch_limit_per_category = limit * 3
FetchFactor == 3

\* The keys add_rec_data looks for in a rec.
EvidenceKeys ==
    {"SharedCompanies", "SharedLocations", "SharedUniversities",
     "CommonInterests", "CommonSkills"}

\* Names of companies, interests, skills, ... two users can share.
Names == {"x", "y"}

\* The evidence columns a row of a category query RETURNs for user uid, under
\* the names the query gives them.  The lists are a function of the pair
\* (requester, uid): every row of one user carries the same lists.
EvidenceOf(category, uid) ==
    LET common == CASE uid = 1 -> <<"x">>
                    [] uid = 2 -> <<"x", "y">>
                    [] OTHER -> <<"y">>
    IN CASE category = "Demographics" ->
              [sharedCompanies |-> IF uid = 3 THEN <<>> ELSE <<"x">>,
               sharedLocations |-> IF uid = 1 THEN <<>> ELSE <<"y">>,
               sharedUniversities |-> <<>>]
         [] category = "Interests" -> [CommonInterests |-> common]
         [] category = "Skills" -> [CommonSkills |-> common]

\* What one category query of PeopleService can return before its LIMIT:
\* rows ORDER BY SimilarityScore DESC; a user may come in more than one row.
GraphResults(category) ==
    LET scored == UNION {[1..n -> [UserID : Cands,
                                   SimilarityScore : ScoreVals(category)]]
                           : n \in 0..MaxLen}
        sorted == {l \in scored :
                     \A i \in 1..(Len(l) - 1) :
                        l[i].SimilarityScore >= l[i + 1].SimilarityScore}
    IN {[i \in 1..Len(l) |->
            [UserID |-> l[i].UserID, SimilarityScore |-> l[i].SimilarityScore,
             Evidence |-> EvidenceOf(category, l[i].UserID)]] : l \in sorted}

IndexOf(seq, uid) == CHOOSE i \in 1..Len(seq) : seq[i].UserID = uid
Has(seq, uid) == \E i \in 1..Len(seq) : seq[i].UserID = uid

\* CommonalityRaw.setdefault(key, []).extend(rec[key]) for every key that is
\* in the rec with a non-empty list.
ExtendRaw(raw, evidence) ==
    LET found == {key \in EvidenceKeys :
                     key \in DOMAIN evidence /\ evidence[key] # <<>>}
    IN [key \in (DOMAIN raw) \cup found |->
           (IF key \in DOMAIN raw THEN raw[key] ELSE <<>>)
           \o (IF key \in found THEN evidence[key] ELSE <<>>)]

\* The empty dict {}.
EmptyDict == [key \in {} |-> <<>>]

\* Mutant: a candidate first seen in the interests or skills list is left
\* out (only candidates of the demographics list get an entry).
AddRec_known_candidates_only(combined, rec, category_key) ==
    LET uid == rec.UserID
        base == IF Has(combined, uid) \/ category_key # "Demographics"
                THEN combined
                ELSE Append(combined,
                            [UserID |-> uid,
                             Scores |-> [Demographics |-> 0, Interests |-> 0,
                                         Skills |-> 0],
                             CommonalityRaw |-> EmptyDict])
    IN IF ~Has(base, uid) THEN base
       ELSE LET i == IndexOf(base, uid)
            IN [base EXCEPT ![i].Scores[category_key] = rec.SimilarityScore,
                            ![i].CommonalityRaw = ExtendRaw(@, rec.Evidence)]

\* Mutant: the score of a row is added to the score recorded so far.
AddRec_sums_scores(combined, rec, category_key) ==
    LET uid == rec.UserID
        base == IF Has(combined, uid) THEN combined
                ELSE Append(combined,
                            [UserID |-> uid,
                             Scores |-> [Demographics |-> 0, Interests |-> 0,
                                         Skills |-> 0],
                             CommonalityRaw |-> EmptyDict])
        i == IndexOf(base, uid)
    IN [base EXCEPT ![i].Scores[category_key] = @ + rec.SimilarityScore,
                    ![i].CommonalityRaw = ExtendRaw(@, rec.Evidence)]

\* add_rec_data for one rec: create the entry on first sight, then assign
\* the category's score and extend the raw commonality lists.  combined_users
\* is a dict: insertion-ordered.
AddRec(combined, rec, category_key) ==
    LET uid == rec.UserID
        base == IF Has(combined, uid) THEN combined
                ELSE Append(combined,
                            [UserID |-> uid,
                             Scores |-> [Demographics |-> 0, Interests |-> 0,
                                         Skills |-> 0],
                             CommonalityRaw |-> EmptyDict])
        i == IndexOf(base, uid)
    IN [base EXCEPT ![i].Scores[category_key] = rec.SimilarityScore,
                    ![i].CommonalityRaw = ExtendRaw(@, rec.Evidence)]

RECURSIVE add_rec_data(_, _, _)
add_rec_data(combined, rec_list, category_key) ==
    IF rec_list = <<>> THEN combined
    ELSE add_rec_data(AddRec(combined, Head(rec_list), category_key),
                      Tail(rec_list), category_key)

\* Mutant: the skills weight raised so that the weights sum to 1.0.
FinalScore_weights_sum_to_one(scores) ==
    scores.Demographics * WeightDemographics
    + scores.Interests * WeightInterests
    + scores.Skills * (WeightSkills + WeightSkills)

\* Mutant: the skills term is left out of the sum.
FinalScore_without_skills(scores) ==
    scores.Demographics * WeightDemographics
    + scores.Interests * WeightInterests

\* final_weighted_score, in thousandths.
FinalScore(scores) ==
    scores.Demographics * WeightDemographics
    + scores.Interests * WeightInterests
    + scores.Skills * WeightSkills

\* The orders in which a set of str can be iterated: the order depends on
\* the string hashes, which are salted per interpreter process.
SetOrders ==
    {s \in [1..Cardinality(Names) -> Names] :
        \A i, j \in 1..Cardinality(Names) : i # j => s[i] # s[j]}

\* Mutant: the raw list is passed on as it is.
Dedup_keeps_raw_list(raw_list, order) == raw_list

\* list(set(raw_list))
Dedup(raw_list, order) ==
    SelectSeq(order, LAMBDA s : \E i \in 1..Len(raw_list) : raw_list[i] = s)

WithFinalScore(combined, order) ==
    [i \in 1..Len(combined) |->
        [UserID |-> combined[i].UserID, Scores |-> combined[i].Scores,
         FinalScore |-> FinalScore(combined[i].Scores),
         Commonalities |->
            [key \in DOMAIN combined[i].CommonalityRaw |->
                Dedup(combined[i].CommonalityRaw[key], order)]]]

\* list.sort(key=FinalScore, reverse=True): stable, descending.
RECURSIVE InsertDesc(_, _)
InsertDesc(sorted, x) ==
    IF sorted = <<>> THEN <<x>>
    ELSE IF Head(sorted).FinalScore >= x.FinalScore
         THEN <<Head(sorted)>> \o InsertDesc(Tail(sorted), x)
         ELSE <<x>> \o sorted

\* Mutant: reverse=True left out, the list comes out ascending.
RECURSIVE InsertAsc(_, _)
InsertAsc(sorted, x) ==
    IF sorted = <<>> THEN <<x>>
    ELSE IF Head(sorted).FinalScore <= x.FinalScore
         THEN <<Head(sorted)>> \o InsertAsc(Tail(sorted), x)
         ELSE <<x>> \o sorted

RECURSIVE SortDesc_without_reverse(_)
SortDesc_without_reverse(list) ==
    IF list = <<>> THEN <<>>
    ELSE InsertAsc(SortDesc_without_reverse(SubSeq(list, 1, Len(list) - 1)),
                   list[Len(list)])

RECURSIVE SortDesc(_)
SortDesc(list) ==
    IF list = <<>> THEN <<>>
    ELSE InsertDesc(SortDesc(SubSeq(list, 1, Len(list) - 1)), list[Len(list)])

\* Mutant: the slice takes one row too many.
Truncate_off_by_one(list, limit) == SubSeq(list, 1, Min(limit + 1, Len(list)))

\* final_recommendations_list[:limit] for limit >= 0 (a negative limit never
\* gets this far).
Truncate(list, limit) == SubSeq(list, 1, Min(limit, Len(list)))

\* LIMIT $limit of the Cypher queries.
CypherLimit(list, limit) == SubSeq(list, 1, Min(limit, Len(list)))

\* step 2 of the handler: the three add_rec_data calls.
Combine(recs) ==
    add_rec_data(add_rec_data(add_rec_data(<<>>, recs[1], "Demographics"),
                              recs[2], "Interests"),
                 recs[3], "Skills")

\* GET /recommendations/reg_id/{user_id}?limit=...  down is the set of
\* category queries that will raise (graph source unreachable, timed out)
\* when this request awaits them.
get_recommendations_attendee(limit) ==
    /\ agg.pc = "idle"
    /\ \E down \in SUBSET {"Demographics", "Interests", "Skills"} :
         agg' = [pc |-> "fetch", limit |-> limit, down |-> down,
                 recs |-> <<>>, ranked |-> <<>>, out |-> <<>>, prev |-> <<>>]
    /\ UNCHANGED <<rows, nextId, calls, cur, req, sim, reg, prof>>

\* The same request is sent a second time, after the first has returned its
\* list: same user_id, same limit, and (see Fetch) an unchanged graph.
get_recommendations_attendee_again ==
    /\ agg.pc = "done"
    /\ agg.prev = <<>>
    /\ agg' = [agg EXCEPT !.pc = "fetch", !.recs = <<>>, !.ranked = <<>>,
                          !.out = <<>>,
                          !.prev = <<[recs |-> agg.recs, out |-> agg.out]>>]
    /\ UNCHANGED <<rows, nextId, calls, cur, req, sim, reg, prof>>

\* One of the three awaited PeopleService queries, LIMIT limit * 3; Neo4j
\* rejects a negative LIMIT.  In a repeated request the query returns what
\* it returned the first time.
Fetch(category, result) ==
    /\ agg.pc = "fetch"
    /\ Len(agg.recs) < 3
    /\ category = Categories[Len(agg.recs) + 1]
    /\ category \notin agg.down
    /\ agg.prev # <<>> =>
         CypherLimit(result, agg.limit * FetchFactor)
            = agg.prev[1].recs[Len(agg.recs) + 1]
    /\ IF agg.limit * FetchFactor < 0
       THEN agg' = [agg EXCEPT !.pc = "error"]
       ELSE agg' = [agg EXCEPT
                      !.recs = Append(@, CypherLimit(result, agg.limit * FetchFactor))]
    /\ UNCHANGED <<rows, nextId, calls, cur, req, sim, reg, prof>>

\* Mutant: a query that raises is taken for a query that returned no rows.
FetchFails_taken_as_empty ==
    /\ agg.pc = "fetch"
    /\ Len(agg.recs) < 3
    /\ Categories[Len(agg.recs) + 1] \in agg.down
    /\ agg' = [agg EXCEPT !.recs = Append(@, <<>>)]
    /\ UNCHANGED <<rows, nextId, calls, cur, req, sim, reg, prof>>

\* The awaited query raises: the handler's except turns it into HTTP 500;
\* the queries after it are never sent.
FetchFails ==
    /\ agg.pc = "fetch"
    /\ Len(agg.recs) < 3
    /\ Categories[Len(agg.recs) + 1] \in agg.down
    /\ agg' = [agg EXCEPT !.pc = "error"]
    /\ UNCHANGED <<rows, nextId, calls, cur, req, sim, reg, prof>>

\* Sequences with the same elements as list, in any order that is
\* descending in FinalScore.
DescendingOrders(list) ==
    LET n == Len(list)
        perms == {f \in [1..n -> 1..n] : \A i, j \in 1..n : i # j => f[i] # f[j]}
    IN {[i \in 1..n |-> list[f[i]]] : f \in
          {g \in perms : \A i \in 1..(n - 1) :
              list[g[i]].FinalScore >= list[g[i + 1]].FinalScore}}

\* Mutant: the sort is not stable, rows with equal FinalScore come out in
\* any order.
Fuse_ties_in_any_order ==
    /\ agg.pc = "fetch"
    /\ Len(agg.recs) = 3
    /\ \E order \in SetOrders :
         \E final_recommendations_list \in
               DescendingOrders(WithFinalScore(Combine(agg.recs), order)) :
            agg' = [agg EXCEPT !.pc = "done",
                               !.ranked = final_recommendations_list,
                               !.out = Truncate(final_recommendations_list, agg.limit)]
    /\ UNCHANGED <<rows, nextId, calls, cur, req, sim, reg, prof>>

\* Steps 2 to 4 of the handler, which has no await after the third fetch.
Fuse ==
    /\ agg.pc = "fetch"
    /\ Len(agg.recs) = 3
    /\ \E order \in SetOrders :
         LET combined_users == Combine(agg.recs)
             final_recommendations_list ==
                 SortDesc(WithFinalScore(combined_users, order))
         IN agg' = [agg EXCEPT !.pc = "done",
                               !.ranked = final_recommendations_list,
                               !.out = Truncate(final_recommendations_list, agg.limit)]
    /\ UNCHANGED <<rows, nextId, calls, cur, req, sim, reg, prof>>

InitAgg ==
    /\ rows = {}
    /\ nextId = 1
    /\ calls = <<>>
    /\ cur = [p \in Procs |-> 0]
    /\ req = [p \in Procs |-> "none"]
    /\ agg = AggIdle
    /\ sim = SimIdle
    /\ reg = RegIdle
    /\ prof = ProfIdle

NextAgg ==
    \/ \E limit \in (-1)..MaxLimit : get_recommendations_attendee(limit)
    \/ \E category \in {"Demographics", "Interests", "Skills"} :
         \E result \in GraphResults(category) : Fetch(category, result)
    \/ FetchFails
    \/ Fuse

SpecAgg == InitAgg /\ [][NextAgg]_vars

\* The aggregator with requests that are repeated.
NextRepeat == NextAgg \/ get_recommendations_attendee_again

SpecRepeat == InitAgg /\ [][NextRepeat]_vars

(***************************************************************************)
(* Part II: claims                                                         *)
(***************************************************************************)
Done == agg.pc = "done"
Seen == UNION {{agg.recs[k][i].UserID : i \in 1..Len(agg.recs[k])} : k \in 1..3}
Returned == {agg.out[i].UserID : i \in 1..Len(agg.out)}

\* C8 - truncation: for limit >= 0 the returned list has
\* min(limit, distinct candidates seen) rows, and no candidate left out has a
\* final score greater than a returned one.
C8_Truncation ==
    (Done /\ agg.limit >= 0)
    => /\ Len(agg.out) = Min(agg.limit, Cardinality(Seen))
       /\ Cardinality(Returned) = Len(agg.out)
       /\ \A i \in 1..Len(agg.out), j \in 1..Len(agg.ranked) :
            agg.ranked[j].UserID \notin Returned
            => agg.ranked[j].FinalScore <= agg.out[i].FinalScore

\* Three candidates with strictly descending final scores, limit 2.
C8_Witness ==
    /\ Done /\ agg.limit = 2 /\ Cardinality(Seen) = 3 /\ Len(agg.out) = 2
    /\ agg.ranked[1].FinalScore > agg.ranked[2].FinalScore
    /\ agg.ranked[2].FinalScore > agg.ranked[3].FinalScore

\* C9 - composite score: every returned row's FinalScore is
\* 0.20*Demographics + 0.60*Interests + 0.10*Skills of its scores, and the
\* score of a category the candidate did not appear in is 0.
C9_Composite ==
    Done =>
    \A i \in 1..Len(agg.out) :
        LET row == agg.out[i]
        IN /\ row.FinalScore = 20 * row.Scores.Demographics
                               + 60 * row.Scores.Interests
                               + 10 * row.Scores.Skills
           /\ \A k \in 1..3 :
                IF Has(agg.recs[k], row.UserID)
                THEN \E n \in 1..Len(agg.recs[k]) :
                       /\ agg.recs[k][n].UserID = row.UserID
                       /\ agg.recs[k][n].SimilarityScore = row.Scores[Categories[k]]
                ELSE row.Scores[Categories[k]] = 0

\* Candidate A {0.5, 0, 0} gets 0.10 and candidate B {0, 0.2, 1.0} gets 0.22.
C9_Witness ==
    /\ Done
    /\ \E i, j \in 1..Len(agg.out) :
         /\ agg.out[i].Scores = [Demographics |-> 5, Interests |-> 0, Skills |-> 0]
         /\ agg.out[i].FinalScore = 100
         /\ agg.out[j].Scores = [Demographics |-> 0, Interests |-> 2, Skills |-> 10]
         /\ agg.out[j].FinalScore = 220

\* C10 - order: the returned list is in descending order of FinalScore.
C10_Descending ==
    Done =>
    \A i, j \in 1..Len(agg.out) :
        i < j => agg.out[i].FinalScore >= agg.out[j].FinalScore

\* A candidate with 0.22 is returned above one with 0.10, though the one
\* with 0.10 was seen first.
C10_Witness ==
    /\ Done /\ Len(agg.out) = 2
    /\ agg.out[1].FinalScore = 220 /\ agg.out[2].FinalScore = 100
    /\ agg.recs[1] # <<>>

\* The candidates and composite scores of a response, in order.
Ranking(out) == [i \in 1..Len(out) |-> <<out[i].UserID, out[i].FinalScore>>]

C12_UnionMembership ==
    (Done /\ Cardinality(Seen) <= agg.limit)
    => /\ Returned = Seen
       /\ Len(agg.out) = Cardinality(Seen)

\* A candidate that only the skills query returned is in the response, next
\* to a candidate of another category.
C12_Witness ==
    /\ Done /\ Cardinality(Seen) = 2 /\ agg.limit = 2
    /\ \E uid \in Returned :
         /\ Has(agg.recs[3], uid)
         /\ ~Has(agg.recs[1], uid)
         /\ ~Has(agg.recs[2], uid)

\* C13 - evidence deduplication: no list of Commonalities in a returned row
\* holds the same string twice.
C13_EvidenceDeduplicated ==
    Done =>
    \A n \in 1..Len(agg.out) :
        \A key \in DOMAIN agg.out[n].Commonalities :
            LET list == agg.out[n].Commonalities[key]
            IN \A i, j \in 1..Len(list) : list[i] = list[j] => i = j

\* A candidate came in two rows of the interests query, each row with the
\* two common interests, and is returned with the two of them.
C13_Witness ==
    /\ Done
    /\ Len(agg.recs[2]) = 2
    /\ agg.recs[2][1].UserID = agg.recs[2][2].UserID
    /\ \E n \in 1..Len(agg.out) :
         /\ agg.out[n].UserID = agg.recs[2][1].UserID
         /\ "CommonInterests" \in DOMAIN agg.out[n].Commonalities
         /\ Len(agg.out[n].Commonalities["CommonInterests"]) = 2

\* C14 - partial failure: a request with limit >= 0 in which one or two of
\* the three category queries fail still returns a list.
C14_PartialFailureNonFatal ==
    ( /\ agg.pc \in {"done", "error"}
      /\ agg.limit >= 0
      /\ Cardinality(agg.down) \in {1, 2} )
    => agg.pc = "done"

\* C15 - total failure: a request in which all three category queries fail
\* ends in an error, and a request returns an empty list only when all
\* three queries succeeded and returned no rows.
C15_TotalFailureIsError ==
    /\ (agg.pc \in {"done", "error"} /\ Cardinality(agg.down) = 3)
       => agg.pc = "error"
    /\ (Done /\ agg.out = <<>>)
       => /\ agg.down = {}
          /\ \A k \in 1..3 : agg.recs[k] = <<>>

\* All three queries were going to fail, limit was positive, and the request
\* ended in an error.
C15_Witness ==
    /\ agg.pc = "error"
    /\ agg.limit > 0
    /\ Cardinality(agg.down) = 3

\* C21 - per-category scores: in every returned row the score of a category
\* is the score of a row that category's query returned for the candidate,
\* and 0 when the query returned no row for it; scores of two rows or of two
\* categories are never summed.
C21_PerCategoryScores ==
    Done =>
    \A n \in 1..Len(agg.out) :
        \A k \in 1..3 :
            LET uid == agg.out[n].UserID
                score == agg.out[n].Scores[Categories[k]]
            IN IF Has(agg.recs[k], uid)
               THEN \E i \in 1..Len(agg.recs[k]) :
                       /\ agg.recs[k][i].UserID = uid
                       /\ agg.recs[k][i].SimilarityScore = score
               ELSE score = 0

\* A candidate came in two rows of the skills query and in a row of the
\* interests query, and is returned.
C21_Witness ==
    /\ Done
    /\ Len(agg.recs[3]) = 2
    /\ agg.recs[3][1].UserID = agg.recs[3][2].UserID
    /\ Has(agg.recs[2], agg.recs[3][1].UserID)
    /\ ~Has(agg.recs[1], agg.recs[3][1].UserID)
    /\ agg.recs[3][1].UserID \in Returned

\* The evidence field a column of a query stands for.
FieldOf(column) ==
    CASE column = "sharedCompanies" -> "SharedCompanies"
      [] column = "sharedLocations" -> "SharedLocations"
      [] column = "sharedUniversities" -> "SharedUniversities"
      [] OTHER -> column

\* The strings a row of a query reports under an evidence field.
RowStrings(rec, field) ==
    UNION {{rec.Evidence[col][j] : j \in 1..Len(rec.Evidence[col])} :
             col \in {c \in DOMAIN rec.Evidence : FieldOf(c) = field}}

\* The strings the three queries reported for uid under an evidence field.
Reported(uid, field) ==
    UNION {UNION {RowStrings(agg.recs[k][i], field) :
                    i \in {x \in 1..Len(agg.recs[k]) :
                             agg.recs[k][x].UserID = uid}} :
           k \in 1..3}

\* The strings a returned row shows under an evidence field.
Merged(row, field) ==
    IF field \in DOMAIN row.Commonalities
    THEN {row.Commonalities[field][j] : j \in 1..Len(row.Commonalities[field])}
    ELSE {}

\* C22 - evidence union: for every returned row and every evidence field,
\* the strings shown are exactly the strings the three queries reported for
\* that candidate.
C22_EvidenceUnionComplete ==
    Done =>
    \A n \in 1..Len(agg.out) :
        \A field \in EvidenceKeys :
            Merged(agg.out[n], field) = Reported(agg.out[n].UserID, field)

\* The orders of the rows of a result list that the query's ORDER BY
\* SimilarityScore DESC allows.
Reorderings(list) ==
    LET n == Len(list)
        perms == {f \in [1..n -> 1..n] : \A i, j \in 1..n : i # j => f[i] # f[j]}
    IN {[i \in 1..n |-> list[f[i]]] : f \in
          {g \in perms : \A i \in 1..(n - 1) :
              list[g[i]].SimilarityScore >= list[g[i + 1]].SimilarityScore}}

\* C23 - tie-break: the order of the returned candidates does not depend on
\* the order of the rows of equal score inside a result list.
C23_TieBreakOnCandidates ==
    Done =>
    \A demographics_recs \in Reorderings(agg.recs[1]),
       interests_recs \in Reorderings(agg.recs[2]),
       skills_recs \in Reorderings(agg.recs[3]) :
        \A order \in SetOrders :
            Ranking(Truncate(SortDesc(WithFinalScore(
                        Combine(<<demographics_recs, interests_recs, skills_recs>>),
                        order)), agg.limit))
            = Ranking(agg.out)

\* C28 - every returned row has a composite score above 0 and is not the
\* requesting user.
C28_PositiveAndNotSelf ==
    Done =>
    \A n \in 1..Len(agg.out) :
        /\ agg.out[n].FinalScore > 0
        /\ agg.out[n].UserID # UserId

\* A candidate returned by the skills query only, with its lowest score, is
\* in the response.
C28_Witness ==
    /\ Done
    /\ \E n \in 1..Len(agg.out) :
         agg.out[n].Scores = [Demographics |-> 0, Interests |-> 0, Skills |-> 5]

(***************************************************************************)
(* Part III: background_similarity_task (main.py)                          *)
(* Time is counted in hours.                                               *)
(***************************************************************************)
MIN_HOURS_BETWEEN_COMPUTATIONS == 24
USER_UPDATE_THRESHOLD == 10

\* await asyncio.sleep(60 * 60)
CheckEveryHours == 1

\* An hour passes, unless the task is due to wake up.
Tick ==
    /\ sim.clock < MaxHours
    /\ ~(sim.pc = "sleep" /\ sim.wake <= sim.clock)
    /\ sim' = [sim EXCEPT !.clock = @ + 1]
    /\ UNCHANGED <<rows, nextId, calls, cur, req, agg, reg, prof>>

\* update_user_data has committed a relevant change and counts it.  pending
\* counts the updates since the latest refresh was started.
increment_profile_update_count_in_memory ==
    /\ sim.count < MaxUpdates
    /\ sim' = [sim EXCEPT !.count = @ + 1, !.pending = @ + 1]
    /\ UNCHANGED <<rows, nextId, calls, cur, req, agg, reg, prof>>

\* The task wakes up and checks the two conditions; when one holds it
\* starts refresh_gds_graphs_and_similarities, otherwise it sleeps again.
background_similarity_task_check ==
    /\ sim.pc = "sleep"
    /\ sim.wake <= sim.clock
    /\ LET time_since_last_comp == sim.clock - sim.last
           updates_threshold_met == sim.count >= USER_UPDATE_THRESHOLD
           time_condition_met ==
               time_since_last_comp >= MIN_HOURS_BETWEEN_COMPUTATIONS
       IN IF updates_threshold_met \/ time_condition_met
          THEN sim' = [sim EXCEPT
                         !.pc = "refresh", !.pending = 0,
                         !.lastStart = sim.clock,
                         !.gap = IF sim.lastStart = -1 THEN -1
                                 ELSE sim.clock - sim.lastStart]
          ELSE sim' = [sim EXCEPT !.wake = sim.clock + CheckEveryHours]
    /\ UNCHANGED <<rows, nextId, calls, cur, req, agg, reg, prof>>

\* The refresh returns and reset_similarity_state_in_memory runs.
reset_similarity_state_in_memory ==
    /\ sim.pc = "refresh"
    /\ sim' = [sim EXCEPT !.count = 0, !.last = sim.clock,
                          !.pc = "sleep", !.result = "completed",
                          !.wake = sim.clock + CheckEveryHours]
    /\ UNCHANGED <<rows, nextId, calls, cur, req, agg, reg, prof>>

\* Mutant: the state is reset in the except branch too.
RefreshRaises_and_state_is_reset ==
    /\ sim.pc = "refresh"
    /\ sim' = [sim EXCEPT !.count = 0, !.last = sim.clock,
                          !.pc = "sleep", !.result = "raised",
                          !.wake = sim.clock + CheckEveryHours]
    /\ UNCHANGED <<rows, nextId, calls, cur, req, agg, reg, prof>>

\* The refresh raises: the except branch prints the error and the loop
\* goes back to sleep.
RefreshRaises ==
    /\ sim.pc = "refresh"
    /\ sim' = [sim EXCEPT !.pc = "sleep", !.result = "raised",
                          !.wake = sim.clock + CheckEveryHours]
    /\ UNCHANGED <<rows, nextId, calls, cur, req, agg, reg, prof>>

InitSim ==
    /\ rows = {}
    /\ nextId = 1
    /\ calls = <<>>
    /\ cur = [p \in Procs |-> 0]
    /\ req = [p \in Procs |-> "none"]
    /\ agg = AggIdle
    /\ sim = SimIdle
    /\ reg = RegIdle
    /\ prof = ProfIdle

NextSim ==
    \/ Tick
    \/ increment_profile_update_count_in_memory
    \/ background_similarity_task_check
    \/ reset_similarity_state_in_memory
    \/ RefreshRaises

SpecSim == InitSim /\ [][NextSim]_vars

\* C25 - two recomputations started by the task are at least 24 hours
\* apart.
C25_MinHoursBetweenComputations ==
    sim.gap = -1 \/ sim.gap >= MIN_HOURS_BETWEEN_COMPUTATIONS

\* C29 - no update is lost: every update made since the latest refresh was
\* started is in the counter.
C29_NoLostUpdate == sim.count >= sim.pending

\* C30 - the counter and the timestamp change back only in the step that
\* follows a completed refresh; a refresh that raises leaves both as they
\* were and sends the task back to sleep for an hour; and a check starts a
\* refresh exactly when the threshold or the time condition holds.
C30_ResetOnlyAfterSuccess ==
    [][ /\ (sim'.count < sim.count \/ sim'.last # sim.last)
           => (sim.pc = "refresh" /\ sim'.result = "completed")
        /\ (sim.pc = "refresh" /\ sim'.pc = "sleep" /\ sim'.result = "raised")
           => /\ sim'.count = sim.count
              /\ sim'.last = sim.last
              /\ sim'.wake = sim.clock + CheckEveryHours
        /\ (sim.pc = "sleep" /\ sim.wake <= sim.clock /\ sim' # sim
            /\ sim'.count = sim.count)
           => ((sim'.pc = "refresh")
               <=> (\/ sim.count >= USER_UPDATE_THRESHOLD
                    \/ sim.clock - sim.last >= MIN_HOURS_BETWEEN_COMPUTATIONS)) ]_vars

\* A refresh raised, and the check of the next hour has started a refresh
\* again.
C30_Witness ==
    /\ sim.pc = "refresh"
    /\ sim.result = "raised"
    /\ sim.gap = CheckEveryHours

(***************************************************************************)
(* Part IV: claim_registration (app/api/v1/endpoints/events.py)            *)
(* The users are authenticated; all requests name the same reg_id.         *)
(***************************************************************************)

\* Steps 1 and 2: the user is authenticated and the registration record is
\* selected.
claim_registration_select(u) ==
    /\ reg.pc[u] = "idle"
    /\ reg.sent[u] < MaxClaims
    /\ reg' = [reg EXCEPT
                 !.pc[u] = "loaded", !.sent[u] = @ + 1,
                 !.seen[u] = [user_id |-> reg.user_id, status |-> reg.status]]
    /\ UNCHANGED <<rows, nextId, calls, cur, req, agg, sim, prof>>

\* Step 3, on the record as it was selected: A confirm, B 409, C 400,
\* D UPDATE user_registrations SET user_id, status WHERE reg_id = ... and
\* commit.
claim_registration_decide(u) ==
    /\ reg.pc[u] = "loaded"
    /\ LET registration_record == reg.seen[u]
       IN IF registration_record.user_id = u
             /\ registration_record.status = "claimed"
          THEN reg' = [reg EXCEPT !.pc[u] = "idle", !.response[u] = 200,
                                  !.granted = @ \cup {u}]
          ELSE IF registration_record.user_id # 0
          THEN reg' = [reg EXCEPT !.pc[u] = "idle", !.response[u] = 409]
          ELSE IF registration_record.status # "pre_registered"
          THEN reg' = [reg EXCEPT !.pc[u] = "idle", !.response[u] = 400]
          ELSE reg' = [reg EXCEPT !.pc[u] = "idle", !.response[u] = 200,
                                  !.granted = @ \cup {u},
                                  !.user_id = u, !.status = "claimed",
                                  !.owners = Append(@, u)]
    /\ UNCHANGED <<rows, nextId, calls, cur, req, agg, sim, prof>>

InitReg ==
    /\ rows = {}
    /\ nextId = 1
    /\ calls = <<>>
    /\ cur = [p \in Procs |-> 0]
    /\ req = [p \in Procs |-> "none"]
    /\ agg = AggIdle
    /\ sim = SimIdle
    /\ reg \in {RegIdle, [RegIdle EXCEPT !.status = "cancelled"],
                [RegIdle EXCEPT !.user_id = 1, !.status = "claimed",
                                !.granted = {1}, !.owners = <<1>>]}
    /\ prof = ProfIdle

NextReg ==
    \E u \in Users :
        \/ claim_registration_select(u)
        \/ claim_registration_decide(u)

SpecReg == InitReg /\ [][NextReg]_vars

\* C26 - at most one user ever gets a successful claim for the reg_id, and
\* the registration's user_id, once set, is never set to another user.
C26_SingleClaimant ==
    /\ Cardinality(reg.granted) <= 1
    /\ \A i, j \in 1..Len(reg.owners) : reg.owners[i] = reg.owners[j]

(***************************************************************************)
(* Part V: update_user_data (app/api/v1/endpoints/people.py) and           *)
(* update_user_location_neo4j (app/db/neo4j.py), for one user              *)
(***************************************************************************)

\* What a find_or_create_* call can return to the handler: the id and name
\* of a catalog entity, whose name need not be the raw text.
Entities == [id : 1..2, name : Texts]

\* The in-memory counter after increment_profile_update_count_in_memory.
Incremented == [sim EXCEPT !.count = @ + 1, !.pending = @ + 1]

\* POST /update with one attribute of the given kind: skills, interests,
\* job roles and the company go to the canonicalizer first, the location
\* goes straight to update_user_location_neo4j.
update_user_data(p, kind, raw) ==
    /\ prof.pc[p] = "idle"
    /\ prof.begun < MaxProfileUpdates
    /\ prof' = [prof EXCEPT
                  !.pc[p] = IF kind = "location" THEN "delete" ELSE "resolve",
                  !.att[p] = [NoAttr EXCEPT !.kind = kind, !.raw = raw],
                  !.begun = @ + 1]
    /\ UNCHANGED <<rows, nextId, calls, cur, req, agg, sim, reg>>

\* info = await find_or_create_*(db, raw)
update_user_data_resolve(p, entity) ==
    /\ prof.pc[p] = "resolve"
    /\ prof' = [prof EXCEPT !.pc[p] = "merge", !.att[p].info = entity]
    /\ UNCHANGED <<rows, nextId, calls, cur, req, agg, sim, reg>>

\* find_or_create_* raises or returns nothing: nothing is written for the
\* attribute.
update_user_data_resolve_raises(p) ==
    /\ prof.pc[p] = "resolve"
    /\ prof' = [prof EXCEPT !.pc[p] = "idle", !.att[p] = NoAttr]
    /\ UNCHANGED <<rows, nextId, calls, cur, req, agg, sim, reg>>

\* await db.merge(UserSkill(user_id, skill_interest_id = info[id], ...))
update_user_data_merge(p) ==
    /\ prof.pc[p] = "merge"
    /\ prof' = [prof EXCEPT !.pc[p] = "graph",
                            !.att[p].link = prof.att[p].info.id]
    /\ UNCHANGED <<rows, nextId, calls, cur, req, agg, sim, reg>>

\* await create_or_update_user_*_neo4j(user_id, info[name])
update_user_data_graph(p) ==
    /\ prof.pc[p] = "graph"
    /\ prof' = [prof EXCEPT !.pc[p] = "commit",
                            !.att[p].graph = prof.att[p].info.name]
    /\ UNCHANGED <<rows, nextId, calls, cur, req, agg, sim, reg>>

\* First statement of update_user_location_neo4j: MATCH (u)-[old_r:LIVES_IN]
\* ->(:Location) DELETE old_r, in a transaction of its own.
update_user_location_neo4j_delete(p) ==
    /\ prof.pc[p] = "delete"
    /\ prof' = [prof EXCEPT !.pc[p] = "merge_location", !.lives = {}]
    /\ UNCHANGED <<rows, nextId, calls, cur, req, agg, sim, reg>>

\* Second statement: MERGE (l:Location {name}) MERGE (u)-[r:LIVES_IN]->(l),
\* with the location name of the payload.
update_user_location_neo4j_merge(p) ==
    /\ prof.pc[p] = "merge_location"
    /\ prof' = [prof EXCEPT !.pc[p] = "commit",
                            !.lives = @ \cup {prof.att[p].raw},
                            !.att[p].graph = prof.att[p].raw]
    /\ UNCHANGED <<rows, nextId, calls, cur, req, agg, sim, reg>>

\* await db.commit(), then the update is counted.
update_user_data_commit(p) ==
    /\ prof.pc[p] = "commit"
    /\ prof' = [prof EXCEPT !.pc[p] = "idle", !.att[p] = NoAttr]
    /\ sim' = Incremented
    /\ UNCHANGED <<rows, nextId, calls, cur, req, agg, reg>>

InitProf ==
    /\ rows = {}
    /\ nextId = 1
    /\ calls = <<>>
    /\ cur = [p \in Procs |-> 0]
    /\ req = [p \in Procs |-> "none"]
    /\ agg = AggIdle
    /\ sim = SimIdle
    /\ reg = RegIdle
    /\ prof \in {ProfIdle, [ProfIdle EXCEPT !.lives = {"a"}]}

NextProf ==
    \E p \in Procs :
        \/ \E kind \in Kinds, raw \in Texts : update_user_data(p, kind, raw)
        \/ \E entity \in Entities : update_user_data_resolve(p, entity)
        \/ update_user_data_resolve_raises(p)
        \/ update_user_data_merge(p)
        \/ update_user_data_graph(p)
        \/ update_user_location_neo4j_delete(p)
        \/ update_user_location_neo4j_merge(p)
        \/ update_user_data_commit(p)

SpecProf == InitProf /\ [][NextProf]_vars

C27_SingleLivesIn ==
    (\A p \in Procs : prof.pc[p] \notin {"delete", "merge_location"})
    => Cardinality(prof.lives) <= 1

====
